---- MODULE Spec2Model ----
(***************************************************************************)
(* A model of the dataset tooling of cnn-gambling-blocker:                 *)
(*   - scraper/format_dataset.py : format_filename, batch_rename_files     *)
(*   - scraper/validate_dataset.py : check_duplicates, check_file_existence*)
(*     check_unexpected_files, main                                        *)
(*   - utils/url.py : get_domain                                           *)
(* A Python str is modelled as a sequence of one-character strings, so     *)
(* that every regular expression, slice, split and join of the source is   *)
(* computed character by character.  Indices are 1-based; Python's -1 for  *)
(* "not found" is 0 here.                                                  *)
(***************************************************************************)
EXTENDS Integers, Sequences, FiniteSets, Bags, TLC

\* ------------------------------------------------------------------------
\* Characters and the primitives of str / re / os.path that the code uses.
\* ------------------------------------------------------------------------

Lower == {"a","b","c","d","e","f","g","h","i","j","k","l","m",
          "n","o","p","q","r","s","t","u","v","w","x","y","z"}

Upper == {"A","B","C","D","E","F","G","H","I","J","K","L","M",
          "N","O","P","Q","R","S","T","U","V","W","X","Y","Z"}

Digits == {"0","1","2","3","4","5","6","7","8","9"}

\* re's \w (ASCII part): letters, digits and the underscore.
WordChars == Lower \cup Upper \cup Digits \cup {"_"}

\* Python's None for device_type.  The code only ever tests device_type for
\* truth (lines 38 and 135), where None and "" behave alike.
None == <<>>

Min(S) == CHOOSE x \in S : \A y \in S : x <= y

Max(S) == CHOOSE x \in S : \A y \in S : x >= y

\* s[:n] and s[n:] for 0 <= n (clamped as Python slices are).
Take(s, n) == SubSeq(s, 1, IF n < Len(s) THEN n ELSE Len(s))

Drop(s, n) == SubSeq(s, n + 1, Len(s))

startswith(s, p) == Len(s) >= Len(p) /\ SubSeq(s, 1, Len(p)) = p

endswith(s, p) == Len(s) >= Len(p) /\ SubSeq(s, Len(s) - Len(p) + 1, Len(s)) = p

\* str.find as a 1-based index, 0 when absent.
find(s, p) ==
    LET hits == {i \in 1..(Len(s) - Len(p) + 1) : SubSeq(s, i, i + Len(p) - 1) = p}
    IN IF hits = {} THEN 0 ELSE Min(hits)

\* str.rfind of one character as a 1-based index, 0 when absent.
rfind(s, c) ==
    LET hits == {i \in 1..Len(s) : s[i] = c}
    IN IF hits = {} THEN 0 ELSE Max(hits)

Contains(s, p) == find(s, p) # 0

RECURSIVE split(_, _)
\* str.split(sep) for a non-empty separator.
split(s, sep) ==
    LET i == find(s, sep)
    IN IF i = 0 THEN <<s>>
       ELSE <<SubSeq(s, 1, i - 1)>> \o split(Drop(s, i + Len(sep) - 1), sep)

RECURSIVE join(_, _)
\* sep.join(parts)
join(parts, sep) ==
    IF parts = <<>> THEN <<>>
    ELSE IF Len(parts) = 1 THEN parts[1]
    ELSE parts[1] \o sep \o join(Tail(parts), sep)

RECURSIVE rstrip(_, _)
\* str.rstrip of one character.
rstrip(s, c) ==
    IF s # <<>> /\ s[Len(s)] = c THEN rstrip(Take(s, Len(s) - 1), c) ELSE s

\* The last k items of a list, parts[-k:].
LastItems(parts, k) ==
    IF k >= Len(parts) THEN parts ELSE SubSeq(parts, Len(parts) - k + 1, Len(parts))

\* os.path.splitext (posixpath: sep "/", extsep "."): split at the last dot
\* after the last "/", unless only dots precede it in the basename.
splitext(p) ==
    LET sepIndex == rfind(p, "/")
        dotIndex == rfind(p, ".")
    IN IF dotIndex > sepIndex
          /\ \E k \in (sepIndex + 1)..(dotIndex - 1) : p[k] # "."
       THEN [name |-> SubSeq(p, 1, dotIndex - 1), ext |-> Drop(p, dotIndex - 1)]
       ELSE [name |-> p, ext |-> <<>>]

\* The end of the longest run of characters of class cls starting at i
\* (i - 1 when s[i] is not of the class): a greedy cls* of re.
RunEnd(s, i, cls) ==
    LET stops == {k \in i..Len(s) : s[k] \notin cls}
    IN IF stops = {} THEN Len(s) ELSE Min(stops) - 1

\* re.search(r"\((\w+)\)", s): the leftmost "(" followed by one or more word
\* characters and ")".  found is the truth of the match object.
ParenMatchAt(s, i) ==
    /\ s[i] = "("
    /\ LET e == RunEnd(s, i + 1, WordChars)
       IN e >= i + 1 /\ e < Len(s) /\ s[e + 1] = ")"

paren_search(s) ==
    LET hits == {i \in 1..Len(s) : ParenMatchAt(s, i)}
    IN IF hits = {} THEN [found |-> FALSE, group1 |-> <<>>]
       ELSE LET i == Min(hits)
            IN [found |-> TRUE, group1 |-> SubSeq(s, i + 1, RunEnd(s, i + 1, WordChars))]

\* A match of r"_?\([^)]+\)_?" at the head of s: the index of its last
\* character, 0 when there is none.
ParenSubMatchEnd(s) ==
    LET p == IF Len(s) >= 2 /\ s[1] = "_" /\ s[2] = "(" THEN 2
             ELSE IF Len(s) >= 1 /\ s[1] = "(" THEN 1 ELSE 0
        closers == {k \in (p + 1)..Len(s) : s[k] = ")"}
    IN IF p = 0 \/ closers = {} THEN 0
       ELSE LET c == Min(closers)
            IN IF c = p + 1 THEN 0
               ELSE IF c < Len(s) /\ s[c + 1] = "_" THEN c + 1 ELSE c

RECURSIVE sub_paren(_)
\* re.sub(r"_?\([^)]+\)_?", "", s): leftmost non-overlapping matches removed.
sub_paren(s) ==
    IF s = <<>> THEN <<>>
    ELSE LET e == ParenSubMatchEnd(s)
         IN IF e = 0 THEN <<Head(s)>> \o sub_paren(Tail(s))
            ELSE sub_paren(Drop(s, e))

\* A match of r"_[a-z]{2}-[a-z]{2}" at index i of s.
LocaleAt(s, i) ==
    /\ i + 5 <= Len(s)
    /\ s[i] = "_"
    /\ s[i + 1] \in Lower /\ s[i + 2] \in Lower
    /\ s[i + 3] = "-"
    /\ s[i + 4] \in Lower /\ s[i + 5] \in Lower

locale_search(s) == \E i \in 1..Len(s) : LocaleAt(s, i)

RECURSIVE sub_locale(_)
\* re.sub(r"_[a-z]{2}-[a-z]{2}", "", s)
sub_locale(s) ==
    IF s = <<>> THEN <<>>
    ELSE IF LocaleAt(s, 1) THEN sub_locale(Drop(s, 6))
    ELSE <<Head(s)>> \o sub_locale(Tail(s))

\* ------------------------------------------------------------------------
\* scraper/format_dataset.py : format_filename, stage by stage.
\* ------------------------------------------------------------------------

\* scraper.constant.KNOWN_SLDS: the second-level labels of two-part country
\* TLDs (.co.id, .or.id, .ac.id, ...).
KNOWN_SLDS ==
    { <<"c","o">>, <<"o","r">>, <<"a","c">>, <<"g","o">>,
      <<"n","e","t">>, <<"w","e","b">>, <<"s","c","h">> }

\* "if not device_type:" (line 38): the suffix check runs only when no
\* parenthesised marker was recorded.
SuffixCheckAlways(device_type) == TRUE

SuffixCheckRuns(device_type) == device_type = None

\* "device_type = paren_match.group(1)" (line 32): whatever word token
\* stands between the parentheses is recorded.
ParenDevice(m) == m.group1

\* Lines 29-35: the parenthesised marker.  paren is the truth of paren_match.
paren_device_of(name, m) ==
    IF m.found
    THEN [device_type |-> ParenDevice(m), name |-> sub_paren(name), paren |-> TRUE]
    ELSE [device_type |-> None, name |-> name, paren |-> FALSE]

paren_device(name) == paren_device_of(name, paren_search(name))

\* Lines 38-46: the _desktop / _mobile suffix.  suffix_checked tells whether
\* the endswith tests were evaluated.
suffix_device_of(p, check) ==
    IF check /\ endswith(p.name, <<"_","d","e","s","k","t","o","p">>)
    THEN [device_type |-> <<"d","e","s","k","t","o","p">>,
          name |-> Take(p.name, Len(p.name) - 8),
          paren |-> p.paren, suffix_checked |-> check]
    ELSE IF check /\ endswith(p.name, <<"_","m","o","b","i","l","e">>)
    THEN [device_type |-> <<"m","o","b","i","l","e">>,
          name |-> Take(p.name, Len(p.name) - 7),
          paren |-> p.paren, suffix_checked |-> check]
    ELSE [device_type |-> p.device_type, name |-> p.name,
          paren |-> p.paren, suffix_checked |-> check]

suffix_device(p) == suffix_device_of(p, SuffixCheckRuns(p.device_type))

\* Lines 50-52: everything from the first "__" on is dropped.
strip_query(name) ==
    IF Contains(name, <<"_","_">>) THEN split(name, <<"_","_">>)[1] ELSE name

\* Lines 55-57: locale codes such as _en-id are removed.
strip_locale_never(name) == name

strip_locale(name) ==
    IF locale_search(name) THEN sub_locale(name) ELSE name

\* Line 60.
strip_trailing_underscores(name) == rstrip(name, "_")

\* Lines 63-65.
strip_www(name) ==
    IF startswith(name, <<"w","w","w",".">>) THEN Drop(name, 4) ELSE name

\* Lines 68-70.
strip_m(name) ==
    IF startswith(name, <<"m",".">>) THEN Drop(name, 2) ELSE name

\* Lines 73-76: the stem is cut at its first underscore.
trim_path_never(name) == name

trim_path(name) ==
    LET underscore_idx == find(name, <<"_">>)
    IN IF underscore_idx # 0 THEN Take(name, underscore_idx - 1) ELSE name

\* Lines 81-94: the stem is cut after the lowercase run that follows its
\* last dot, when that run is not empty.
trim_tld(name) ==
    LET last_dot_idx == rfind(name, ".")
        tld_end == RunEnd(name, last_dot_idx + 1, Lower)
    IN IF last_dot_idx # 0 /\ tld_end > last_dot_idx
       THEN Take(name, tld_end) ELSE name

\* Lines 98-107: a TLD part "x_x..." is collapsed to "x".  tld_parts[0] and
\* tld_parts[1] are read behind "len(tld_parts) >= 2".
collapse_parts_always(name, last_dot_idx, tld_parts) ==
    Take(name, last_dot_idx) \o tld_parts[1]

collapse_parts(name, last_dot_idx, tld_parts) ==
    IF Len(tld_parts) >= 2 /\ tld_parts[1] = tld_parts[2]
    THEN Take(name, last_dot_idx) \o tld_parts[1]
    ELSE name

collapse_at(name, last_dot_idx) ==
    IF last_dot_idx # 0 /\ Contains(Drop(name, last_dot_idx), <<"_">>)
    THEN collapse_parts(name, last_dot_idx, split(Drop(name, last_dot_idx), <<"_">>))
    ELSE name

collapse_duplicate_tld(name) == collapse_at(name, rfind(name, "."))

\* "if len(parts) >= 3:" (line 114), the guard of the read of parts[-2].
ThreeLabelsUnguarded(parts) == TRUE

ThreeLabels(parts) == Len(parts) >= 3

\* "if second_level in KNOWN_SLDS:" (line 117).
IsKnownSldNever(second_level) == FALSE

IsKnownSld(second_level) == second_level \in KNOWN_SLDS

\* "domain = ".".join(parts[-3:])" (line 119).
KeepAllLabels(parts) == join(parts, <<".">>)

KeepThree(parts) == join(LastItems(parts, 3), <<".">>)

\* "domain = ".".join(parts[-2:])" (lines 123 and 127).
KeepFirstAndLast(parts) == parts[1] \o <<".">> \o parts[Len(parts)]

KeepTwo(parts) == join(LastItems(parts, 2), <<".">>)

\* Lines 113-132: the main domain.  raised is an IndexError of parts[-2].
domain_of_parts(name, parts, remove_subdomains) ==
    IF ~remove_subdomains THEN [domain |-> name, raised |-> FALSE]
    ELSE IF ThreeLabels(parts)
    THEN IF Len(parts) < 2 THEN [domain |-> <<>>, raised |-> TRUE]
         ELSE IF IsKnownSld(parts[Len(parts) - 1])
         THEN [domain |-> KeepThree(parts), raised |-> FALSE]
         ELSE [domain |-> KeepTwo(parts), raised |-> FALSE]
    ELSE IF Len(parts) >= 2
    THEN [domain |-> KeepTwo(parts), raised |-> FALSE]
    ELSE [domain |-> name, raised |-> FALSE]

\* Lines 112-132.
main_domain(name, remove_subdomains) ==
    domain_of_parts(name, split(name, <<".">>), remove_subdomains)

\* Lines 135-138: the new filename.
assemble(domain, device_type, ext) ==
    IF device_type # None THEN domain \o <<"_">> \o device_type \o ext
    ELSE domain \o ext

\* Lines 22-141: one call of format_filename, stage after stage, with the
\* stem as it leaves each stage.  raised: the call ended in an exception
\* instead of returning.
trace_result(se, d, s3, s4, s5, s6, s7, s8, s9, md) ==
    [stem |-> se.name, ext |-> se.ext,
     device_type |-> d.device_type, paren |-> d.paren,
     suffix_checked |-> d.suffix_checked,
     s2 |-> d.name, s3 |-> s3, s4 |-> s4, s5 |-> s5, s6 |-> s6,
     s7 |-> s7, s8 |-> s8, s9 |-> s9,
     domain |-> md.domain, raised |-> md.raised,
     result |-> IF md.raised THEN <<>>
                ELSE assemble(md.domain, d.device_type, se.ext)]

trace_domain(se, d, s3, s4, s5, s6, s7, s8, s9, remove_subdomains) ==
    trace_result(se, d, s3, s4, s5, s6, s7, s8, s9, main_domain(s9, remove_subdomains))

trace_collapse(se, d, s3, s4, s5, s6, s7, s8, remove_subdomains) ==
    trace_domain(se, d, s3, s4, s5, s6, s7, s8, collapse_duplicate_tld(s8),
                 remove_subdomains)

trace_tld(se, d, s3, s4, s5, s6, s7, remove_subdomains) ==
    trace_collapse(se, d, s3, s4, s5, s6, s7, trim_tld(s7), remove_subdomains)

trace_path(se, d, s3, s4, s5, s6, remove_subdomains) ==
    trace_tld(se, d, s3, s4, s5, s6, trim_path(s6), remove_subdomains)

trace_prefix(se, d, s3, s4, s5, remove_subdomains) ==
    trace_path(se, d, s3, s4, s5, strip_m(strip_www(s5)), remove_subdomains)

trace_rstrip(se, d, s3, s4, remove_subdomains) ==
    trace_prefix(se, d, s3, s4, strip_trailing_underscores(s4), remove_subdomains)

trace_locale(se, d, s3, remove_subdomains) ==
    trace_rstrip(se, d, s3, strip_locale(s3), remove_subdomains)

trace_query(se, d, remove_subdomains) ==
    trace_locale(se, d, strip_query(d.name), remove_subdomains)

trace_device(se, remove_subdomains) ==
    trace_query(se, suffix_device(paren_device(se.name)), remove_subdomains)

format_trace(filename, remove_subdomains) ==
    trace_device(splitext(filename), remove_subdomains)

format_filename(filename, remove_subdomains) ==
    format_trace(filename, remove_subdomains).result

\* ------------------------------------------------------------------------
\* State.
\* ------------------------------------------------------------------------

VARIABLES
    filename,            \* format_filename's argument
    remove_subdomains,   \* its flag
    fpc,                 \* "start" | "formatted" | "again"
    run,                 \* the trace of format_filename(filename, flag)
    rerun,               \* the trace of format_filename applied to run.result
    \* concurrent calls of format_filename
    cargs,               \* per caller: the arguments [filename, remove_subdomains]
    cpc,                 \* per caller: the position of the call
    frame,               \* per caller: the call's locals name, ext, device_type
    cret,                \* per caller: the value returned
    level,               \* the level of the logger handed to the calls
    log,                 \* the debug records the logger has emitted (a bag)
    \* batch_rename_files
    is_dir,              \* os.path.isdir(folder_path)
    disk,                \* the folder: name -> 0 absent, -1 subdirectory, k > 0 file k
    disk0,               \* the folder as the run found it
    bflag,               \* remove_subdomains of the run
    bpc,                 \* "start" | "loop" | "done" | "raised"
    berror,              \* the exception the run raised, "" for none
    files,               \* the list of line 152
    bi,                  \* the position of the for loop in files
    renamed_count,       \* line 160
    no_change_count,     \* line 161
    format_calls,        \* calls of format_filename so far
    rename_calls,        \* calls of os.rename so far
    error_logs,          \* logger.error records of line 175 so far
    blog,                \* the per-file records of lines 172, 175 and 177, in order
    \* validate_dataset.main
    gsites,              \* GAMBLING_SITES
    nsites,              \* NON_GAMBLING_SITES
    gdir,                \* datasets/images/gambling: [isdir, files, subdirs]
    ndir,                \* datasets/images/non_gambling
    vpc,                 \* "duplicates" | "existence" | "unexpected" | "done" | "raised"
    vdir,                \* the directory the current check works on
    vi,                  \* the position of "for site in sites" (line 23)
    vj,                  \* the position of "for expected_file in expected_files" (line 29)
    verror,              \* the exception main raised, "" for none
    vbad,                \* the site or the path the exception names
    isfile_calls,        \* calls of os.path.isfile so far
    warnings,            \* the logger.warning records of line 41
    \* expected file names of check_file_existence
    eparts,              \* the parts the two site URLs are written from
    eurls,               \* the two site URLs
    epc,                 \* "start" | "done"
    enames,              \* per URL, the expected file names of lines 25-28
    ecanon,              \* per URL, format_filename of each expected name
    \* step 9 of format_filename on its own
    kname,               \* the stem entering lines 98-107
    kpc,                 \* "start" | "done"
    kout,                \* the stem leaving them
    \* scraper/scrape.py main and Scraper.scrape_into_dataset
    slists,              \* [n |-> NON_GAMBLING_SITES, g |-> GAMBLING_SITES]
    jpc,                 \* "check" | "non_gambling" | "gambling" | "done" | "raised"
    jerror,              \* the exception main raised, "" for none
    tpc,                 \* per site, the position of its run_one task
    texc,                \* per site, an exception is on its way out of the call
    attempts,            \* per site, the calls of scrape_into_dataset so far
    open_pages,          \* the pages of the two browser contexts that are open
    spages,              \* Scraper.pages
    sem_value,           \* the free slots of the group's semaphore
    progress,            \* per group, pbar.update(1) calls
    warned,              \* "Failed to scrape site" warnings
    failed,              \* calls of scrape_into_dataset that raised
    close_calls          \* calls of Scraper.close()

fvars == <<filename, remove_subdomains, fpc, run, rerun>>

cvars == <<cargs, cpc, frame, cret, level, log>>

bvars == <<is_dir, disk, disk0, bflag, bpc, berror, files, bi, renamed_count,
           no_change_count, format_calls, rename_calls, error_logs, blog>>

vvars == <<gsites, nsites, gdir, ndir, vpc, vdir, vi, vj, verror, vbad,
           isfile_calls, warnings>>

evars == <<eparts, eurls, epc, enames, ecanon>>

kvars == <<kname, kpc, kout>>

svars == <<slists, jpc, jerror, tpc, texc, attempts, open_pages, spages, sem_value,
           progress, warned, failed, close_calls>>

vars == <<fvars, cvars, bvars, vvars, evars, kvars, svars>>

\* The variables outside each part of the model.
notF == <<cvars, bvars, vvars, evars, kvars, svars>>

notC == <<fvars, bvars, vvars, evars, kvars, svars>>

notB == <<fvars, cvars, vvars, evars, kvars, svars>>

notV == <<fvars, cvars, bvars, evars, kvars, svars>>

notE == <<fvars, cvars, bvars, vvars, kvars, svars>>

notK == <<fvars, cvars, bvars, vvars, evars, svars>>

notS == <<fvars, cvars, bvars, vvars, evars, kvars>>

\* ------------------------------------------------------------------------
\* Inputs of format_filename: stems of up to MaxTokens tokens, with or
\* without the .png extension, and the filenames the documentation names.
\* ------------------------------------------------------------------------

MaxTokens == 3

Tokens ==
    { <<"w","w","w",".">>, <<"m",".">>, <<"a">>, <<"1">>, <<"=">>,
      <<".","c","o">>, <<".","i","d">>, <<".","c","o","m">>,
      <<"_">>, <<"(">>, <<")">>, <<"(","m","o","b","i","l","e",")">>,
      <<"_","d","e","s","k","t","o","p">>, <<"_","e","n","-","i","d">> }

Exts == { <<>>, <<".","p","n","g">> }

RECURSIVE Concat(_)
Concat(ts) == IF ts = <<>> THEN <<>> ELSE Head(ts) \o Concat(Tail(ts))

Stems == { Concat(ts) : ts \in UNION { [1..n -> Tokens] : n \in 0..MaxTokens } }

\* "www.ovo.id_(desktop).png" (docstring, line 14)
ExOvoDesktop ==
    <<"w","w","w",".","o","v","o",".","i","d","_","(","d","e","s","k","t","o","p",")",
      ".","p","n","g">>

\* "ovo.id_mobile.png" (docstring, line 15)
ExOvoMobile ==
    <<"o","v","o",".","i","d","_","m","o","b","i","l","e",".","p","n","g">>

\* "www.tiket.com_en-id(mobile).png" (docstring, line 16)
ExTiket ==
    <<"w","w","w",".","t","i","k","e","t",".","c","o","m","_","e","n","-","i","d",
      "(","m","o","b","i","l","e",")",".","p","n","g">>

\* "king.ayo788-pit.com_mobile.png" (docstring, line 17)
ExAyo ==
    <<"k","i","n","g",".","a","y","o","7","8","8","-","p","i","t",".","c","o","m",
      "_","m","o","b","i","l","e",".","p","n","g">>

\* "mail.ru__solution429=57w5&autologin=no(desktop).png" (docstring, line 19, shortened)
ExMailRu ==
    <<"m","a","i","l",".","r","u","_","_","s","o","l","u","t","i","o","n","4","2","9",
      "=","5","7","w","5","&","a","u","t","o","l","o","g","i","n","=","n","o",
      "(","d","e","s","k","t","o","p",")",".","p","n","g">>

\* "sub.example.co.id_mobile.png"
ExSub ==
    <<"s","u","b",".","e","x","a","m","p","l","e",".","c","o",".","i","d",
      "_","m","o","b","i","l","e",".","p","n","g">>

\* "www.nu.or.id_(desktop).png" (the domain of the comment of line 118)
ExNu ==
    <<"w","w","w",".","n","u",".","o","r",".","i","d","_","(","d","e","s","k","t","o","p",")",
      ".","p","n","g">>

\* "prodia.co.id_id.png" (comment of line 96)
ExProdia ==
    <<"p","r","o","d","i","a",".","c","o",".","i","d","_","i","d",".","p","n","g">>

Examples == {ExOvoDesktop, ExOvoMobile, ExTiket, ExAyo, ExMailRu, ExSub, ExNu, ExProdia}

\* "a.com_en_en-id-id.png": a locale code stands around another one.
ExLocaleJoin == <<"a", ".", "c", "o", "m", "_", "e", "n", "_", "e", "n", "-", "i", "d", "-", "i", "d", ".", "p", "n", "g">>

Inputs == { st \o e : st \in Stems, e \in Exts } \cup Examples \cup {ExLocaleJoin}

NoRun == format_trace(<<>>, TRUE)

\* The parts of the model at rest.
FIdle ==
    /\ filename = <<>> /\ remove_subdomains = TRUE /\ fpc = "idle"
    /\ run = NoRun /\ rerun = NoRun

CIdle ==
    /\ cargs = <<>> /\ cpc = <<>> /\ frame = <<>> /\ cret = <<>>
    /\ level = "INFO" /\ log = EmptyBag

BIdle ==
    /\ is_dir = FALSE /\ disk = <<>> /\ disk0 = <<>> /\ bflag = TRUE
    /\ bpc = "idle" /\ berror = "" /\ files = <<>> /\ bi = 0
    /\ renamed_count = 0 /\ no_change_count = 0
    /\ format_calls = 0 /\ rename_calls = 0 /\ error_logs = 0 /\ blog = <<>>

VIdle ==
    /\ gsites = <<>> /\ nsites = <<>> /\ gdir = <<>> /\ ndir = <<>>
    /\ vpc = "idle" /\ vdir = "" /\ vi = 0 /\ vj = 0
    /\ verror = "" /\ vbad = <<>> /\ isfile_calls = 0 /\ warnings = {}

EIdle ==
    /\ eparts = <<>> /\ eurls = <<>> /\ epc = "idle" /\ enames = <<>> /\ ecanon = <<>>

KIdle ==
    /\ kname = <<>> /\ kpc = "idle" /\ kout = <<>>

SIdle ==
    /\ slists = <<>> /\ jpc = "idle" /\ jerror = ""
    /\ tpc = <<>> /\ texc = <<>> /\ attempts = <<>> /\ open_pages = {}
    /\ spages = {} /\ sem_value = 0 /\ progress = <<>> /\ warned = 0
    /\ failed = 0 /\ close_calls = 0

\* ------------------------------------------------------------------------
\* format_filename called on a filename, then on its own result.
\* ------------------------------------------------------------------------

FInit ==
    /\ filename \in Inputs
    /\ remove_subdomains \in BOOLEAN
    /\ fpc = "start"
    /\ run = NoRun
    /\ rerun = NoRun
    /\ CIdle /\ BIdle /\ VIdle /\ EIdle /\ KIdle /\ SIdle

\* new_filename = format_filename(filename, logger, remove_subdomains)
Format ==
    /\ fpc = "start"
    /\ run' = format_trace(filename, remove_subdomains)
    /\ fpc' = "formatted"
    /\ UNCHANGED <<filename, remove_subdomains, rerun>>
    /\ UNCHANGED notF

\* format_filename(new_filename, logger, remove_subdomains): a second pass
\* over a name the first pass produced (a second run of the batch).
Reformat ==
    /\ fpc = "formatted"
    /\ ~run.raised
    /\ rerun' = format_trace(run.result, remove_subdomains)
    /\ fpc' = "again"
    /\ UNCHANGED <<filename, remove_subdomains, run>>
    /\ UNCHANGED notF

FNext == Format \/ Reformat

\* ------------------------------------------------------------------------
\* Concurrent calls of format_filename (threads of one interpreter).  A call
\* keeps name, ext and device_type in its own frame; outside the call it
\* reads KNOWN_SLDS and hands debug records to the caller's logger, which
\* emits them when its level is DEBUG.
\* ------------------------------------------------------------------------

NumCallers == 2

Callers == 1..NumCallers

CallInputs == {ExTiket, ExSub, ExAyo, ExProdia}

\* The frame that holds the locals of caller c's call.
SlotShared(c) == 1

Slot(c) == c

\* logger.debug(...) at source line `line`, reached when cond holds.
Msg(cond, line) == IF cond THEN {line} ELSE {}

\* What logger.debug does with the records of one step (logging.Logger:
\* a record below the logger's level is dropped).
Emit(c, lines) ==
    IF level = "DEBUG" THEN log (+) SetToBag({<<c, l>> : l \in lines}) ELSE log

\* Lines 26-46 with their debug calls (lines 33, 41, 45).
device_stage(d) ==
    [name |-> d.name, device_type |-> d.device_type,
     lines |-> Msg(d.paren, 33)
               \cup Msg(~d.paren /\ d.device_type = <<"d","e","s","k","t","o","p">>, 41)
               \cup Msg(~d.paren /\ d.device_type = <<"m","o","b","i","l","e">>, 45)]

\* Lines 48-76 with their debug calls (lines 51, 56, 64, 69, 75).
clean6(s2, s3, s4, s5, s5w, s6) ==
    [name |-> trim_path(s6),
     lines |-> Msg(Contains(s2, <<"_","_">>), 51) \cup Msg(locale_search(s3), 56)
               \cup Msg(startswith(s5, <<"w","w","w",".">>), 64)
               \cup Msg(startswith(s5w, <<"m",".">>), 69)
               \cup Msg(Contains(s6, <<"_">>), 75)]

clean5(s2, s3, s4, s5, s5w) == clean6(s2, s3, s4, s5, s5w, strip_m(s5w))

clean4(s2, s3, s4, s5) == clean5(s2, s3, s4, s5, strip_www(s5))

clean3(s2, s3, s4) == clean4(s2, s3, s4, strip_trailing_underscores(s4))

clean2(s2, s3) == clean3(s2, s3, strip_locale(s3))

clean_stage(s2) == clean2(s2, strip_query(s2))

\* The debug call of lines 113-128 that the branch taken reaches.
domain_line(parts, flag) ==
    IF ~flag THEN {}
    ELSE IF ThreeLabels(parts)
    THEN IF Len(parts) >= 2 /\ IsKnownSld(parts[Len(parts) - 1]) THEN {120} ELSE {124}
    ELSE IF Len(parts) >= 2 THEN {128} ELSE {}

\* Lines 78-132 with their debug calls (lines 93, 105, 120, 124, 128).
domain3(s7, s8, s9, flag) ==
    [md |-> main_domain(s9, flag),
     lines |-> Msg(s8 # s7, 93) \cup Msg(s9 # s8, 105)
               \cup domain_line(split(s9, <<".">>), flag)]

domain2(s7, s8, flag) ==
    domain3(s7, s8, collapse_duplicate_tld(s8), flag)

domain_stage(s7, flag) == domain2(s7, trim_tld(s7), flag)

NoFrame == [name |-> <<>>, ext |-> <<>>, device_type |-> None, domain |-> <<>>]

CInit ==
    /\ cargs \in [Callers -> [filename : CallInputs, remove_subdomains : BOOLEAN]]
    /\ cpc = [c \in Callers |-> "ready"]
    /\ frame = [c \in Callers |-> NoFrame]
    /\ cret = [c \in Callers |-> <<>>]
    /\ level \in {"DEBUG", "INFO"}
    /\ log = EmptyBag
    /\ FIdle /\ BIdle /\ VIdle /\ EIdle /\ KIdle /\ SIdle

\* Lines 22-24: logger.debug("Processing"), name, ext = os.path.splitext(filename).
CallEnterOf(c, se) ==
    /\ cpc[c] = "ready"
    /\ frame' = [frame EXCEPT ![Slot(c)] =
                    [name |-> se.name, ext |-> se.ext, device_type |-> None,
                     domain |-> <<>>]]
    /\ log' = Emit(c, {22})
    /\ cpc' = [cpc EXCEPT ![c] = "device"]
    /\ UNCHANGED <<cargs, cret, level>>
    /\ UNCHANGED notC

CallEnter(c) == CallEnterOf(c, splitext(cargs[c].filename))

\* Lines 26-46.
CallDeviceOf(c, st) ==
    /\ cpc[c] = "device"
    /\ frame' = [frame EXCEPT ![Slot(c)].name = st.name,
                              ![Slot(c)].device_type = st.device_type]
    /\ log' = Emit(c, st.lines)
    /\ cpc' = [cpc EXCEPT ![c] = "clean"]
    /\ UNCHANGED <<cargs, cret, level>>
    /\ UNCHANGED notC

CallDevice(c) ==
    CallDeviceOf(c, device_stage(suffix_device(paren_device(frame[Slot(c)].name))))

\* Lines 48-76.
CallCleanOf(c, st) ==
    /\ cpc[c] = "clean"
    /\ frame' = [frame EXCEPT ![Slot(c)].name = st.name]
    /\ log' = Emit(c, st.lines)
    /\ cpc' = [cpc EXCEPT ![c] = "domain"]
    /\ UNCHANGED <<cargs, cret, level>>
    /\ UNCHANGED notC

CallClean(c) == CallCleanOf(c, clean_stage(frame[Slot(c)].name))

\* Lines 78-132.
CallDomainOf(c, st) ==
    /\ cpc[c] = "domain"
    /\ frame' = [frame EXCEPT ![Slot(c)].domain = st.md.domain]
    /\ log' = Emit(c, st.lines)
    /\ cpc' = [cpc EXCEPT ![c] = "return"]
    /\ UNCHANGED <<cargs, cret, level>>
    /\ UNCHANGED notC

CallDomain(c) ==
    CallDomainOf(c, domain_stage(frame[Slot(c)].name, cargs[c].remove_subdomains))

\* Lines 134-141: new_filename, logger.debug("Result"), return.
CallReturn(c) ==
    /\ cpc[c] = "return"
    /\ cret' = [cret EXCEPT ![c] =
                   assemble(frame[Slot(c)].domain, frame[Slot(c)].device_type,
                            frame[Slot(c)].ext)]
    /\ log' = Emit(c, {140})
    /\ cpc' = [cpc EXCEPT ![c] = "done"]
    /\ UNCHANGED <<cargs, frame, level>>
    /\ UNCHANGED notC

CNext ==
    \E c \in Callers :
        \/ CallEnter(c)
        \/ CallDevice(c)
        \/ CallClean(c)
        \/ CallDomain(c)
        \/ CallReturn(c)

\* ------------------------------------------------------------------------
\* scraper/format_dataset.py : batch_rename_files over one folder.
\* ------------------------------------------------------------------------

MaxEntries == 3

\* The names a folder may hold: www.a.png, m.a.png, a.png, a(mobile).png,
\* a_mobile.png and _ (whose formatted name is empty).
BatchNameSeq ==
    << <<"w","w","w",".","a",".","p","n","g">>,
       <<"m",".","a",".","p","n","g">>,
       <<"a",".","p","n","g">>,
       <<"a","(","m","o","b","i","l","e",")",".","p","n","g">>,
       <<"a","_","m","o","b","i","l","e",".","p","n","g">>,
       <<"_">> >>

BatchNames == {BatchNameSeq[k] : k \in DOMAIN BatchNameSeq}

FileId(n) == CHOOSE k \in DOMAIN BatchNameSeq : BatchNameSeq[k] = n

\* The orders in which os.listdir may return a set of names.
Orders(S) ==
    {p \in [1..Cardinality(S) -> S] : \A i, j \in DOMAIN p : i # j => p[i] # p[j]}

\* os.path.isfile(os.path.join(folder_path, f)) over os.listdir (line 152).
RegularFiles(d) == {n \in DOMAIN d : d[n] > 0}

\* "if not files:" (line 154).
NoFilesNever(S) == FALSE

NoFiles(S) == S = {}

\* "if filename != new_filename:" (line 166).
NameChangedAlways(old, new) == TRUE

NameChanged(old, new) == old # new

\* os.rename(old_path, new_path) cannot succeed: the source is gone, the
\* target is the folder itself (an empty name) or a subdirectory.
RenameMustFail(d, old, new) ==
    \/ d[old] <= 0
    \/ new \notin DOMAIN d
    \/ d[new] = -1

\* The folder after a successful os.rename: the file moves to the new name
\* and replaces a file that was there.
Renamed(d, old, new) ==
    IF old = new THEN d ELSE [d EXCEPT ![new] = d[old], ![old] = 0]

BInit ==
    /\ is_dir \in BOOLEAN
    /\ bflag \in BOOLEAN
    /\ \E entries \in SUBSET BatchNames :
         /\ Cardinality(entries) <= MaxEntries
         /\ is_dir \/ entries = {}
         /\ \E dirs \in SUBSET entries :
              disk = [n \in BatchNames |->
                        IF n \in dirs THEN -1 ELSE IF n \in entries THEN FileId(n) ELSE 0]
    /\ disk0 = disk
    /\ bpc = "start" /\ berror = "" /\ files = <<>> /\ bi = 0
    /\ renamed_count = 0 /\ no_change_count = 0
    /\ format_calls = 0 /\ rename_calls = 0 /\ error_logs = 0 /\ blog = <<>>
    /\ FIdle /\ CIdle /\ VIdle /\ EIdle /\ KIdle /\ SIdle

\* Lines 148-150: raise NotADirectoryError.
BatchNotADirectory ==
    /\ bpc = "start" /\ ~is_dir
    /\ bpc' = "raised" /\ berror' = "NotADirectoryError"
    /\ UNCHANGED <<is_dir, disk, disk0, bflag, files, bi, renamed_count,
                   no_change_count, format_calls, rename_calls, error_logs, blog>>
    /\ UNCHANGED notB

\* Lines 152-156: the listing holds no regular file: raise FileNotFoundError.
BatchNoFiles ==
    /\ bpc = "start" /\ is_dir
    /\ NoFiles(RegularFiles(disk))
    /\ bpc' = "raised" /\ berror' = "FileNotFoundError"
    /\ UNCHANGED <<is_dir, disk, disk0, bflag, files, bi, renamed_count,
                   no_change_count, format_calls, rename_calls, error_logs, blog>>
    /\ UNCHANGED notB

\* Lines 152-161: the listing, in the order os.listdir gives, and the counts.
BatchList ==
    /\ bpc = "start" /\ is_dir
    /\ ~NoFiles(RegularFiles(disk))
    /\ files' \in Orders(RegularFiles(disk))
    /\ bi' = 1 /\ renamed_count' = 0 /\ no_change_count' = 0
    /\ bpc' = "loop"
    /\ UNCHANGED <<is_dir, disk, disk0, bflag, berror, format_calls, rename_calls,
                   error_logs, blog>>
    /\ UNCHANGED notB

\* Lines 163-166 and 176-178: the name needs no change.
BatchUnchangedOf(old, new) ==
    /\ ~NameChanged(old, new)
    /\ no_change_count' = no_change_count + 1
    /\ format_calls' = format_calls + 1
    /\ bi' = bi + 1
    /\ blog' = Append(blog, [kind |-> "No change needed", file |-> old])
    /\ UNCHANGED <<is_dir, disk, disk0, bflag, bpc, berror, files, renamed_count,
                   rename_calls, error_logs>>
    /\ UNCHANGED notB

\* Lines 163-173: os.rename succeeds.
BatchRenamedOf(old, new) ==
    /\ NameChanged(old, new)
    /\ ~RenameMustFail(disk, old, new)
    /\ disk' = Renamed(disk, old, new)
    /\ renamed_count' = renamed_count + 1
    /\ format_calls' = format_calls + 1
    /\ rename_calls' = rename_calls + 1
    /\ bi' = bi + 1
    /\ blog' = Append(blog, [kind |-> "Renamed", file |-> old])
    /\ UNCHANGED <<is_dir, disk0, bflag, bpc, berror, files, no_change_count, error_logs>>
    /\ UNCHANGED notB

\* Lines 163-175: os.rename raises (it must for a bad target, and it may for
\* any target: permissions, a read-only folder, an existing target on
\* Windows); the exception is logged and the loop goes on.
BatchRenameFailsOf(old, new) ==
    /\ NameChanged(old, new)
    /\ error_logs' = error_logs + 1
    /\ format_calls' = format_calls + 1
    /\ rename_calls' = rename_calls + 1
    /\ bi' = bi + 1
    /\ blog' = Append(blog, [kind |-> "Error renaming", file |-> old])
    /\ UNCHANGED <<is_dir, disk, disk0, bflag, bpc, berror, files, renamed_count,
                   no_change_count>>
    /\ UNCHANGED notB

InLoop == bpc = "loop" /\ bi <= Len(files)

BatchUnchanged ==
    InLoop /\ BatchUnchangedOf(files[bi], format_filename(files[bi], bflag))

BatchRenamed ==
    InLoop /\ BatchRenamedOf(files[bi], format_filename(files[bi], bflag))

BatchRenameFails ==
    InLoop /\ BatchRenameFailsOf(files[bi], format_filename(files[bi], bflag))

\* Lines 180-183: the summary.
BatchDone ==
    /\ bpc = "loop" /\ bi > Len(files)
    /\ bpc' = "done"
    /\ UNCHANGED <<is_dir, disk, disk0, bflag, berror, files, bi, renamed_count,
                   no_change_count, format_calls, rename_calls, error_logs, blog>>
    /\ UNCHANGED notB

BNext ==
    \/ BatchNotADirectory
    \/ BatchNoFiles
    \/ BatchList
    \/ BatchUnchanged
    \/ BatchRenamed
    \/ BatchRenameFails
    \/ BatchDone

\* ------------------------------------------------------------------------
\* utils/url.py : get_domain, and scraper/validate_dataset.py : main.
\* ------------------------------------------------------------------------

LowerSeq == <<"a","b","c","d","e","f","g","h","i","j","k","l","m",
              "n","o","p","q","r","s","t","u","v","w","x","y","z">>

UpperSeq == <<"A","B","C","D","E","F","G","H","I","J","K","L","M",
              "N","O","P","Q","R","S","T","U","V","W","X","Y","Z">>

lower_char(c) ==
    IF c \in Upper THEN LowerSeq[CHOOSE k \in DOMAIN UpperSeq : UpperSeq[k] = c] ELSE c

\* str.lower.
lower(s) == [k \in DOMAIN s |-> lower_char(s[k])]

\* urllib.parse.scheme_chars.
scheme_chars == Lower \cup Upper \cup Digits \cup {"+", "-", "."}

\* urlsplit: the text before the first ":" is a scheme when it is not empty,
\* starts with a letter and holds scheme characters only (i is find(url, ":")
\* as a 1-based index).
has_scheme(url, i) ==
    /\ i > 1
    /\ url[1] \in Lower \cup Upper
    /\ \A k \in 1..(i - 1) : url[k] \in scheme_chars

url_scheme(url, i) == IF has_scheme(url, i) THEN lower(Take(url, i - 1)) ELSE <<>>

url_rest(url, i) == IF has_scheme(url, i) THEN Drop(url, i) ELSE url

splitnetlocToEnd(url) == SubSeq(url, 3, Len(url))

\* urllib.parse._splitnetloc(url, 2): up to the first of "/", "?" and "#".
splitnetloc(url) ==
    LET hits == {k \in 3..Len(url) : url[k] \in {"/", "?", "#"}}
    IN SubSeq(url, 3, IF hits = {} THEN Len(url) ELSE Min(hits) - 1)

url_netloc(rest) == IF Take(rest, 2) = <<"/", "/">> THEN splitnetloc(rest) ELSE <<>>

\* get_domain(url): (base_url, netloc).
get_domain(url) ==
    << url_scheme(url, find(url, <<":">>)) \o <<":", "/", "/">>
          \o url_netloc(url_rest(url, find(url, <<":">>))),
       url_netloc(url_rest(url, find(url, <<":">>))) >>

MaxSites == 2

MaxMissing == 2

\* The URLs the two site lists are drawn from: https://a.com, https://a.com/x
\* (the same host again) and HTTP://b.id.
SiteUrls ==
    { <<"h","t","t","p","s",":","/","/","a",".","c","o","m">>,
      <<"h","t","t","p","s",":","/","/","a",".","c","o","m","/","x">>,
      <<"H","T","T","P",":","/","/","b",".","i","d">> }

\* "_, domain = get_domain(site)" (line 24), tabulated over the URLs.
domain_of == [url \in SiteUrls |-> get_domain(url)[2]]

SiteLists == UNION {[1..k -> SiteUrls] : k \in 0..MaxSites}

\* A file no site accounts for.
JunkFile == <<"x",".","p","n","g">>

Suffixes == << <<"_","m","o","b","i","l","e",".","p","n","g">>,
               <<"_","d","e","s","k","t","o","p",".","p","n","g">> >>

Directories == <<"datasets/images/gambling", "datasets/images/non_gambling">>

Sites(d) == IF d = Directories[1] THEN gsites ELSE nsites

Dir(d) == IF d = Directories[1] THEN gdir ELSE ndir

\* f"{directory}/{domain}_mobile.png" and f"{directory}/{domain}_desktop.png"
\* (lines 24-28), a path being the directory and the name in it.
expected_file(d, site, j) == <<d, domain_of[site] \o Suffixes[j]>>

\* os.path.isfile (line 30).
isfile(path) == path[2] \in Dir(path[1]).files

\* os.listdir (line 39).
listdir(d) == Dir(d).files \cup Dir(d).subdirs

\* Lines 58-59: the names expected in a directory.
expected_names(sites) ==
    {domain_of[sites[k]] \o Suffixes[j] : k \in DOMAIN sites, j \in DOMAIN Suffixes}

\* list.count (line 14).
count(list, x) == Cardinality({k \in DOMAIN list : list[k] = x})

\* "if count > 1:" (line 15).
IsDuplicateAboveTwo(n) == n > 2

IsDuplicate(n) == n > 1

\* Line 51: the list check_duplicates is given.
all_list == nsites \o gsites

\* A directory that holds the expected names but those of missing, the
\* names of asdir as subdirectories, and the names of extra as files.
DirOf(isdir, expect, missing, asdir, extra) ==
    [isdir |-> isdir, files |-> (expect \ missing) \cup extra, subdirs |-> asdir]

VInit ==
    /\ gsites \in SiteLists
    /\ nsites \in SiteLists
    /\ Len(gsites) + Len(nsites) <= MaxSites
    /\ \E ge \in {expected_names(gsites)}, ne \in {expected_names(nsites)} :
         \E gm \in SUBSET ge, nm \in SUBSET ne :
           /\ Cardinality(gm) + Cardinality(nm) <= MaxMissing
           /\ \E gd \in SUBSET gm, nd \in SUBSET nm, gx, nx \in SUBSET {JunkFile},
                 gis, nis \in BOOLEAN :
                /\ gis \/ (ge \ gm) \cup gx \cup gd = {}
                /\ nis \/ (ne \ nm) \cup nx \cup nd = {}
                /\ gdir = DirOf(gis, ge, gm, gd, gx)
                /\ ndir = DirOf(nis, ne, nm, nd, nx)
    /\ vpc = "duplicates" /\ vdir = "" /\ vi = 0 /\ vj = 0
    /\ verror = "" /\ vbad = <<>> /\ isfile_calls = 0 /\ warnings = {}
    /\ FIdle /\ CIdle /\ BIdle /\ EIdle /\ KIdle /\ SIdle

\* Lines 13-17: the first site of the list that occurs more than once raises.
CheckDuplicatesRaises ==
    /\ vpc = "duplicates"
    /\ \E k \in DOMAIN all_list :
         /\ IsDuplicate(count(all_list, all_list[k]))
         /\ \A h \in 1..(k - 1) : ~IsDuplicate(count(all_list, all_list[h]))
         /\ vbad' = all_list[k]
    /\ vpc' = "raised" /\ verror' = "ValueError"
    /\ UNCHANGED <<gsites, nsites, gdir, ndir, vdir, vi, vj, isfile_calls, warnings>>
    /\ UNCHANGED notV

\* Lines 13-18 and 54: no site occurs twice; on to the gambling directory.
CheckDuplicatesPasses ==
    /\ vpc = "duplicates"
    /\ \A k \in DOMAIN all_list : ~IsDuplicate(count(all_list, all_list[k]))
    /\ vpc' = "existence" /\ vdir' = Directories[1] /\ vi' = 1 /\ vj' = 1
    /\ UNCHANGED <<gsites, nsites, gdir, ndir, verror, vbad, isfile_calls, warnings>>
    /\ UNCHANGED notV

AtExpectedFile == vpc = "existence" /\ vi <= Len(Sites(vdir))

\* Lines 29-30: the expected file is there.
CheckFilePresent ==
    /\ AtExpectedFile
    /\ isfile(expected_file(vdir, Sites(vdir)[vi], vj))
    /\ isfile_calls' = isfile_calls + 1
    /\ vi' = IF vj = Len(Suffixes) THEN vi + 1 ELSE vi
    /\ vj' = IF vj = Len(Suffixes) THEN 1 ELSE vj + 1
    /\ UNCHANGED <<gsites, nsites, gdir, ndir, vpc, vdir, verror, vbad, warnings>>
    /\ UNCHANGED notV

\* Lines 30-32: the expected file is not there: raise FileNotFoundError.
CheckFileMissing ==
    /\ AtExpectedFile
    /\ ~isfile(expected_file(vdir, Sites(vdir)[vi], vj))
    /\ isfile_calls' = isfile_calls + 1
    /\ vpc' = "raised" /\ verror' = "FileNotFoundError"
    /\ vbad' = expected_file(vdir, Sites(vdir)[vi], vj)
    /\ UNCHANGED <<gsites, nsites, gdir, ndir, vdir, vi, vj, warnings>>
    /\ UNCHANGED notV

\* Lines 33 and 55-61: a directory holds all its files; on to the next
\* directory, and after the last one to the unexpected files.
CheckExistenceDone ==
    /\ vpc = "existence" /\ vi > Len(Sites(vdir))
    /\ vpc' = IF vdir = Directories[1] THEN "existence" ELSE "unexpected"
    /\ vdir' = IF vdir = Directories[1] THEN Directories[2] ELSE Directories[1]
    /\ vi' = 1 /\ vj' = 1
    /\ UNCHANGED <<gsites, nsites, gdir, ndir, verror, vbad, isfile_calls, warnings>>
    /\ UNCHANGED notV

\* Lines 37-42 and 61-66: each entry of the directory that is not expected
\* is logged as a warning.
CheckUnexpected ==
    /\ vpc = "unexpected"
    /\ warnings' = warnings \cup
         IF Dir(vdir).isdir
         THEN {<<vdir, f>> : f \in listdir(vdir) \ expected_names(Sites(vdir))}
         ELSE {}
    /\ vpc' = IF vdir = Directories[1] THEN "unexpected" ELSE "done"
    /\ vdir' = IF vdir = Directories[1] THEN Directories[2] ELSE vdir
    /\ UNCHANGED <<gsites, nsites, gdir, ndir, vi, vj, verror, vbad, isfile_calls>>
    /\ UNCHANGED notV

VNext ==
    \/ CheckDuplicatesRaises
    \/ CheckDuplicatesPasses
    \/ CheckFilePresent
    \/ CheckFileMissing
    \/ CheckExistenceDone
    \/ CheckUnexpected

\* ------------------------------------------------------------------------
\* scraper/validate_dataset.py : the expected file names of one site, for
\* two sites side by side.
\* ------------------------------------------------------------------------

UrlSchemes == { <<"h", "t", "t", "p", "s", ":", "/", "/">>, <<"H", "T", "T", "P", ":", "/", "/">> }

\* No subdomain, www. and another subdomain.
UrlSubdomains == { <<>>, <<"w", "w", "w", ".">>, <<"s", "h", "o", "p", ".">> }

\* Registrable domains: a.com and b.co.id.
UrlDomains == { <<"a", ".", "c", "o", "m">>, <<"b", ".", "c", "o", ".", "i", "d">> }

UrlPorts == { <<>>, <<":", "8", "0">> }

UrlPaths == { <<>>, <<"/", "x">> }

UrlParts ==
    [scheme : UrlSchemes, sub : UrlSubdomains, domain : UrlDomains,
     port : UrlPorts, path : UrlPaths]

\* The URL as it stands in the site list.
UrlOf(p) == p.scheme \o p.sub \o p.domain \o p.port \o p.path

\* Lines 24-28: the two expected names of a site.
expected_pair(site) == [j \in DOMAIN Suffixes |-> get_domain(site)[2] \o Suffixes[j]]

EInit ==
    /\ eparts \in [1..2 -> UrlParts]
    /\ eurls = [u \in 1..2 |-> UrlOf(eparts[u])]
    /\ epc = "start"
    /\ enames = <<>>
    /\ ecanon = <<>>
    /\ FIdle /\ CIdle /\ BIdle /\ VIdle /\ KIdle /\ SIdle

\* check_file_existence derives the expected names of both sites; each name
\* is also given to format_filename with remove_subdomains.
ExpectNames ==
    /\ epc = "start"
    /\ enames' = [u \in 1..2 |-> expected_pair(eurls[u])]
    /\ ecanon' = [u \in 1..2 |->
                    [j \in DOMAIN Suffixes |-> format_filename(expected_pair(eurls[u])[j], TRUE)]]
    /\ epc' = "done"
    /\ UNCHANGED <<eparts, eurls>>
    /\ UNCHANGED notE

ENext == ExpectNames

\* ------------------------------------------------------------------------
\* scraper/format_dataset.py : lines 96-107 (step 9) applied to a stem.
\* ------------------------------------------------------------------------

CollapseTokens == { <<"a">>, <<".", "i", "d">>, <<"_", "i", "d">>, <<"_", "x">>, <<"_">>, <<".", "c", "o">> }

\* "prodia.co.id_id" (comment of line 96)
ExProdiaStem == <<"p", "r", "o", "d", "i", "a", ".", "c", "o", ".", "i", "d", "_", "i", "d">>

CollapseStems ==
    { Concat(ts) : ts \in UNION { [1..n -> CollapseTokens] : n \in 0..MaxTokens } }
        \cup {ExProdiaStem}

KInit ==
    /\ kname \in CollapseStems
    /\ kpc = "start"
    /\ kout = <<>>
    /\ FIdle /\ CIdle /\ BIdle /\ VIdle /\ EIdle /\ SIdle

\* Lines 98-107.
Collapse ==
    /\ kpc = "start"
    /\ kout' = collapse_duplicate_tld(kname)
    /\ kpc' = "done"
    /\ UNCHANGED kname
    /\ UNCHANGED notK

KNext == Collapse

\* ------------------------------------------------------------------------
\* scraper/scrape.py : main and scrape_group, and scraper/instance.py :
\* Scraper.scrape_into_dataset and Scraper.close, as asyncio tasks.  A task
\* moves from one await to the next in one step.
\* ------------------------------------------------------------------------

MaxTasks == 4

\* "concurrency: int = 3" (scrape.py line 29).
Concurrency == 3

\* Site lists of different URLs, a URL being a number.
DistinctLists ==
    {[n |-> [i \in 1..ln |-> i], g |-> [i \in 1..lg |-> ln + i]] :
        ln \in 0..MaxTasks, lg \in 0..1} \ {[n |-> [i \in 1..MaxTasks |-> i],
                                             g |-> <<MaxTasks + 1>>]}

\* The lists l with the URL at place i of NON_GAMBLING_SITES + GAMBLING_SITES
\* written again at place j.
WithCopy(l, i, j) ==
    [n |-> [x \in DOMAIN l.n |-> IF x = j THEN (l.n \o l.g)[i] ELSE l.n[x]],
     g |-> [x \in DOMAIN l.g |-> IF Len(l.n) + x = j THEN (l.n \o l.g)[i] ELSE l.g[x]]]

ScrapeInputs ==
    DistinctLists \cup
    {WithCopy(l, ij[1], ij[2]) :
        l \in DistinctLists,
        ij \in {p \in (1..MaxTasks) \X (1..MaxTasks) : p[1] < p[2]}}

\* scrape.py line 21.
job_list == slists.n \o slists.g

\* One run_one task per place of the two lists.
Tasks == DOMAIN job_list

GroupOf(k) == IF k <= Len(slists.n) THEN "non_gambling" ELSE "gambling"

TasksOf(grp) == {k \in Tasks : GroupOf(k) = grp}

\* scrape.py lines 22-24: a site that occurs more than once.
JobHasDuplicate ==
    \E k \in Tasks : Cardinality({h \in Tasks : job_list[h] = job_list[k]}) > 1

\* The positions of a task inside "async with sem" at an await.
InCall == {"new_mobile", "new_desktop", "working", "close_mobile", "close_desktop"}

\* Semaphore.acquire does not wait (scrape.py line 38).
SemFreeAlways(value) == TRUE

SemFree(value) == value > 0

\* "except Exception" (scrape.py line 46) over the exceptions a call raises:
\* RuntimeError (instance.py lines 385, 391) and playwright's Error.
IsCaughtRuntimeErrorOnly(exc) == exc = "RuntimeError"

IsCaught(exc) == exc \in {"RuntimeError", "Error"}

\* The two pages of the call of task k.
PagesOf(k) == {<<k, "mobile">>, <<k, "desktop">>}

\* instance.py line 420: "if not page.is_closed()".
OpenPagesOf(open, pages) == pages \cap open

\* instance.py lines 424-426: every page of Scraper.pages is closed.
ClosePagesIn(open, pages) == open \ pages

\* instance.py lines 430-433: closing a browser context closes its pages.
CloseContexts(open) == {}

SInit ==
    /\ slists \in ScrapeInputs
    /\ jpc = "check" /\ jerror = ""
    /\ tpc = [k \in Tasks |-> "none"]
    /\ texc = [k \in Tasks |-> ""]
    /\ attempts = [k \in Tasks |-> 0]
    /\ open_pages = {}
    /\ spages = {}
    /\ sem_value = 0
    /\ progress = [grp \in {"non_gambling", "gambling"} |-> 0]
    /\ warned = 0 /\ failed = 0
    /\ close_calls = 0
    /\ FIdle /\ CIdle /\ BIdle /\ VIdle /\ EIdle /\ KIdle

\* instance.py lines 422-437 as part of a step of main.
ScraperClose ==
    /\ open_pages' = CloseContexts(ClosePagesIn(open_pages, spages))
    /\ spages' = {}
    /\ close_calls' = close_calls + 1

\* scrape.py lines 22-27: a duplicate closes the scraper and raises.
JobDuplicate ==
    /\ jpc = "check" /\ JobHasDuplicate
    /\ ScraperClose
    /\ jpc' = "raised" /\ jerror' = "ValueError"
    /\ UNCHANGED <<slists, tpc, texc, attempts, sem_value, progress, warned, failed>>
    /\ UNCHANGED notS

\* The tasks of a group are created behind a new semaphore (lines 35-41).
StartGroup(grp) ==
    /\ sem_value' = Concurrency
    /\ tpc' = [k \in Tasks |-> IF GroupOf(k) = grp THEN "waiting" ELSE tpc[k]]
    /\ jpc' = grp

\* scrape.py line 54.
JobStartNonGambling ==
    /\ jpc = "check" /\ ~JobHasDuplicate
    /\ StartGroup("non_gambling")
    /\ UNCHANGED <<slists, jerror, texc, attempts, open_pages, spages, progress, warned,
                   failed, close_calls>>
    /\ UNCHANGED notS

\* A waiting task may enter "async with sem": the semaphore wakes its
\* waiters in the order they came.
MayStart(k) ==
    /\ tpc[k] = "waiting"
    /\ SemFree(sem_value)
    /\ \A h \in TasksOf(GroupOf(k)) : h < k => tpc[h] # "waiting"

\* instance.py lines 367-378: both files exist; the call returns.
TaskSkips(k) ==
    /\ MayStart(k)
    /\ attempts' = [attempts EXCEPT ![k] = @ + 1]
    /\ tpc' = [tpc EXCEPT ![k] = "finished"]
    /\ UNCHANGED <<slists, jpc, jerror, texc, open_pages, spages, sem_value, progress,
                   warned, failed, close_calls>>
    /\ UNCHANGED notS

\* instance.py lines 380-385: not accessible; the call raises RuntimeError.
TaskInaccessible(k) ==
    /\ MayStart(k)
    /\ attempts' = [attempts EXCEPT ![k] = @ + 1]
    /\ tpc' = [tpc EXCEPT ![k] = "finished"]
    /\ texc' = [texc EXCEPT ![k] = "RuntimeError"]
    /\ failed' = failed + 1
    /\ UNCHANGED <<slists, jpc, jerror, open_pages, spages, sem_value, progress, warned,
                   close_calls>>
    /\ UNCHANGED notS

\* instance.py lines 387-393: the call awaits mobile_context.new_page().
TaskBegins(k) ==
    /\ MayStart(k)
    /\ attempts' = [attempts EXCEPT ![k] = @ + 1]
    /\ sem_value' = sem_value - 1
    /\ tpc' = [tpc EXCEPT ![k] = "new_mobile"]
    /\ UNCHANGED <<slists, jpc, jerror, texc, open_pages, spages, progress, warned, failed,
                   close_calls>>
    /\ UNCHANGED notS

\* A call leaves "async with sem" with an exception.
Raises(k, exc) ==
    /\ tpc' = [tpc EXCEPT ![k] = "finished"]
    /\ texc' = [texc EXCEPT ![k] = exc]
    /\ failed' = failed + 1
    /\ sem_value' = sem_value + 1

\* instance.py line 393: the mobile page is there; on to line 394.
TaskMobileOpened(k) ==
    /\ tpc[k] = "new_mobile"
    /\ open_pages' = open_pages \cup {<<k, "mobile">>}
    /\ tpc' = [tpc EXCEPT ![k] = "new_desktop"]
    /\ UNCHANGED <<slists, jpc, jerror, texc, attempts, spages, sem_value, progress, warned,
                   failed, close_calls>>
    /\ UNCHANGED notS

\* instance.py line 393: new_page() raises.
TaskMobileFails(k) ==
    /\ tpc[k] = "new_mobile"
    /\ Raises(k, "Error")
    /\ UNCHANGED <<slists, jpc, jerror, attempts, open_pages, spages, progress, warned,
                   close_calls>>
    /\ UNCHANGED notS

\* instance.py lines 394-399: the desktop page is there; both pages go into
\* Scraper.pages and the call works on them.
TaskDesktopOpened(k) ==
    /\ tpc[k] = "new_desktop"
    /\ open_pages' = open_pages \cup {<<k, "desktop">>}
    /\ spages' = spages \cup PagesOf(k)
    /\ tpc' = [tpc EXCEPT ![k] = "working"]
    /\ UNCHANGED <<slists, jpc, jerror, texc, attempts, sem_value, progress, warned, failed,
                   close_calls>>
    /\ UNCHANGED notS

\* instance.py line 394: the second new_page() raises, outside the try.
TaskDesktopFails(k) ==
    /\ tpc[k] = "new_desktop"
    /\ Raises(k, "Error")
    /\ UNCHANGED <<slists, jpc, jerror, attempts, open_pages, spages, progress, warned,
                   close_calls>>
    /\ UNCHANGED notS

\* instance.py lines 398-416: preparation and screenshots are done, or one
\* of them raised (exc); the finally block awaits mobile_page.close().
TaskWorkEnds(k, exc) ==
    /\ tpc[k] = "working"
    /\ texc' = [texc EXCEPT ![k] = exc]
    /\ tpc' = [tpc EXCEPT ![k] = "close_mobile"]
    /\ UNCHANGED <<slists, jpc, jerror, attempts, open_pages, spages, sem_value, progress,
                   warned, failed, close_calls>>
    /\ UNCHANGED notS

\* instance.py lines 416-419: the mobile page is closed; the call awaits
\* desktop_page.close().
TaskCloseMobile(k) ==
    /\ tpc[k] = "close_mobile"
    /\ open_pages' = open_pages \ {<<k, "mobile">>}
    /\ tpc' = [tpc EXCEPT ![k] = "close_desktop"]
    /\ UNCHANGED <<slists, jpc, jerror, texc, attempts, spages, sem_value, progress, warned,
                   failed, close_calls>>
    /\ UNCHANGED notS

\* instance.py lines 418-420: the desktop page is closed, Scraper.pages keeps
\* its open pages, and the call and "async with sem" end; an exception of
\* the try block leaves the call now.
TaskCloseDesktop(k) ==
    /\ tpc[k] = "close_desktop"
    /\ open_pages' = open_pages \ {<<k, "desktop">>}
    /\ spages' = OpenPagesOf(open_pages', spages)
    /\ tpc' = [tpc EXCEPT ![k] = "finished"]
    /\ failed' = IF texc[k] = "" THEN failed ELSE failed + 1
    /\ sem_value' = sem_value + 1
    /\ UNCHANGED <<slists, jpc, jerror, texc, attempts, progress, warned, close_calls>>
    /\ UNCHANGED notS

TaskStep ==
    \E k \in Tasks :
        \/ TaskSkips(k)
        \/ TaskInaccessible(k)
        \/ TaskBegins(k)
        \/ TaskMobileOpened(k)
        \/ TaskMobileFails(k)
        \/ TaskDesktopOpened(k)
        \/ TaskDesktopFails(k)
        \/ TaskWorkEnds(k, "")
        \/ TaskWorkEnds(k, "Error")
        \/ TaskCloseMobile(k)
        \/ TaskCloseDesktop(k)

\* scrape.py lines 43-49: the loop takes a finished task; an exception that
\* "except Exception" catches is logged and dropped, any other leaves main
\* through the finally of line 57.
JobConsume(k) ==
    /\ jpc = GroupOf(k)
    /\ tpc[k] = "finished"
    /\ tpc' = [tpc EXCEPT ![k] = "done"]
    /\ texc' = [texc EXCEPT ![k] = ""]
    /\ progress' = [progress EXCEPT ![GroupOf(k)] = @ + 1]
    /\ IF texc[k] = "" \/ IsCaught(texc[k])
       THEN /\ warned' = IF texc[k] = "" THEN warned ELSE warned + 1
            /\ UNCHANGED <<jpc, jerror, open_pages, spages, close_calls>>
       ELSE /\ ScraperClose
            /\ jpc' = "raised" /\ jerror' = texc[k]
            /\ UNCHANGED warned
    /\ UNCHANGED <<slists, attempts, sem_value, failed>>
    /\ UNCHANGED notS

JobConsumes == \E k \in Tasks : JobConsume(k)

\* scrape.py lines 51 and 55: the first group is through.
JobStartGambling ==
    /\ jpc = "non_gambling"
    /\ \A k \in TasksOf("non_gambling") : tpc[k] = "done"
    /\ StartGroup("gambling")
    /\ UNCHANGED <<slists, jerror, texc, attempts, open_pages, spages, progress, warned,
                   failed, close_calls>>
    /\ UNCHANGED notS

\* scrape.py lines 56-58: the second group is through; the scraper closes.
JobClose ==
    /\ jpc = "gambling"
    /\ \A k \in TasksOf("gambling") : tpc[k] = "done"
    /\ ScraperClose
    /\ jpc' = "done"
    /\ UNCHANGED <<slists, jerror, tpc, texc, attempts, sem_value, progress, warned, failed>>
    /\ UNCHANGED notS

SNext ==
    \/ JobDuplicate
    \/ JobStartNonGambling
    \/ TaskStep
    \/ JobConsumes
    \/ JobStartGambling
    \/ JobClose

Spec == FInit /\ [][FNext]_vars

SpecCalls == CInit /\ [][CNext]_vars

SpecBatch == BInit /\ [][BNext]_vars

SpecValidate == VInit /\ [][VNext]_vars

SpecExpected == EInit /\ [][ENext]_vars

SpecCollapse == KInit /\ [][KNext]_vars

SpecScrape == SInit /\ [][SNext]_vars

\* ------------------------------------------------------------------------
\* Vocabulary of the properties of format_filename.
\* ------------------------------------------------------------------------

Desktop == <<"d","e","s","k","t","o","p">>

Mobile == <<"m","o","b","i","l","e">>

Formatted == fpc # "start"

DotsOf(s) == {i \in 1..Len(s) : s[i] = "."}

NumLabels(s) == Cardinality(DotsOf(s)) + 1

\* The index of the n-th dot from the right (0 when there are fewer).
NthLastDot(s, n) ==
    LET D == DotsOf(s)
    IN IF Cardinality(D) < n THEN 0
       ELSE CHOOSE i \in D : Cardinality({j \in D : j > i}) = n - 1

\* The last n labels of s, dots included, read off the string itself.
LastLabels(s, n) == Drop(s, NthLastDot(s, n))

\* The label before the last one (for a string of two labels or more).
SecondToLastLabel(s) ==
    SubSeq(s, NthLastDot(s, 2) + 1, NthLastDot(s, 1) - 1)

\* s[i..j] is "(" word-characters ")" with at least one word character.
IsParenToken(s, i, j) ==
    /\ i + 1 < j /\ s[i] = "(" /\ s[j] = ")"
    /\ \A k \in (i + 1)..(j - 1) : s[k] \in WordChars

Positions(s, c) == {k \in 1..Len(s) : s[k] = c}

ParenTokens(s) ==
    {ij \in Positions(s, "(") \X Positions(s, ")") : IsParenToken(s, ij[1], ij[2])}

\* The word of the leftmost parenthesised word token of s.
FirstParenWord(s) ==
    LET ij == CHOOSE p \in ParenTokens(s) : \A q \in ParenTokens(s) : p[1] <= q[1]
    IN SubSeq(s, ij[1] + 1, ij[2] - 1)

\* ------------------------------------------------------------------------
\* C1..C6: format_filename.
\* ------------------------------------------------------------------------

\* C1: format_filename applied to its own output returns that output: every
\* output is a fixed point, for both values of remove_subdomains.
C1_Idempotent == fpc = "again" => rerun.result = run.result

\* C2: every call of format_filename returns a string and none raises, on
\* the first pass and on the second, whatever the input.
C2_Total ==
    /\ Formatted => ~run.raised /\ run.result \in Seq(STRING)
    /\ fpc = "again" => ~rerun.raised /\ rerun.result \in Seq(STRING)

\* C2's case: inputs without structure (empty, only underscores, a lone dot,
\* empty or unbalanced parentheses) have been formatted with the flag set.
C2_Witness ==
    /\ fpc = "again" /\ remove_subdomains
    /\ filename \in { <<"(",")">>, <<")","(">>, <<"_","_">>, <<>> }
    /\ ~run.raised

\* C3: the device marker is desktop, mobile or none, and the output is the
\* domain, then nothing or _desktop or _mobile, then the extension.
C3_DeviceEnumerated ==
    Formatted =>
        /\ run.device_type \in {None, Desktop, Mobile}
        /\ run.result \in { run.domain \o sfx \o run.ext :
                              sfx \in {<<>>, <<"_">> \o Desktop, <<"_">> \o Mobile} }

\* C4: a parenthesised word token in the stem is the device marker of the
\* output and the _desktop/_mobile suffix check is skipped; the suffix check
\* runs exactly when there is no such token; the domain holds no further
\* marker (no underscore at all), so the output has at most one.
C4_ParenPrecedence ==
    Formatted =>
        /\ run.paren = (ParenTokens(run.stem) # {})
        /\ run.paren =>
             /\ run.device_type = FirstParenWord(run.stem)
             /\ ~run.suffix_checked
             /\ run.result = run.domain \o <<"_">> \o FirstParenWord(run.stem) \o run.ext
        /\ ~run.paren => run.suffix_checked
        /\ ~Contains(run.domain, <<"_">>)

\* C4's case: the stem holds (mobile) and also ends in _desktop.
C4_Witness ==
    /\ fpc = "formatted"
    /\ run.paren /\ endswith(run.stem, <<"_">> \o Desktop)
    /\ endswith(run.s2, <<"_">> \o Desktop)
    /\ run.device_type = Mobile

EndsInCcTld(s) ==
    \/ endswith(s, <<".","o","r",".","i","d">>)
    \/ endswith(s, <<".","c","o",".","i","d">>)

EndsInCom(s) == endswith(s, <<".","c","o","m">>)

\* C6 as stated: with remove_subdomains, a stem ending in .or.id or .co.id
\* with 3 labels or more gives a domain of exactly 3 labels, and a stem ending
\* in .com with 2 labels or more gives a domain of exactly 2 labels.
C6_Original ==
    (Formatted /\ remove_subdomains) =>
        /\ (EndsInCcTld(run.s9) /\ NumLabels(run.s9) >= 3) => NumLabels(run.domain) = 3
        /\ (EndsInCom(run.s9) /\ NumLabels(run.s9) >= 2) => NumLabels(run.domain) = 2

\* C6 amended: as C6, except that a stem ending in .com whose label before
\* com is in KNOWN_SLDS (and which has 3 labels or more) gives 3 labels.
C6_Amended ==
    (Formatted /\ remove_subdomains) =>
        /\ (EndsInCcTld(run.s9) /\ NumLabels(run.s9) >= 3) => NumLabels(run.domain) = 3
        /\ (EndsInCom(run.s9) /\ NumLabels(run.s9) >= 2) =>
             NumLabels(run.domain) =
                IF NumLabels(run.s9) >= 3 /\ SecondToLastLabel(run.s9) \in KNOWN_SLDS
                THEN 3 ELSE 2

\* C6's case: a stem ending in .com behind a KNOWN_SLDS label, and a stem of
\* more than 3 labels ending in .co.id, have been formatted.
C6_Witness ==
    /\ fpc = "formatted" /\ remove_subdomains
    /\ \/ EndsInCom(run.s9) /\ NumLabels(run.domain) = 3
       \/ EndsInCcTld(run.s9) /\ NumLabels(run.s9) > 3

\* ------------------------------------------------------------------------
\* C7: format_filename under concurrent calls.
\* ------------------------------------------------------------------------

ReturnsOwnResult ==
    \A c \in DOMAIN cpc :
        cpc[c] = "done" =>
            cret[c] = format_filename(cargs[c].filename, cargs[c].remove_subdomains)

\* C7 as stated: under any interleaving each call returns what it returns
\* alone, and no call performs I/O or changes state outside itself: the
\* logger's output stays as it was.
C7_Original == ReturnsOwnResult /\ log = EmptyBag

\* C7 amended: under any interleaving each call returns what it returns
\* alone; outside itself a call only hands debug records to the caller's
\* logger: nothing is emitted when the logger's level is INFO, and at DEBUG
\* each call emits its own records once ("Processing" when it starts,
\* "Result" when it returns).
C7_Amended ==
    /\ ReturnsOwnResult
    /\ level = "INFO" => log = EmptyBag
    /\ level = "DEBUG" =>
         /\ \A r \in BagToSet(log) : r[1] \in DOMAIN cpc /\ CopiesIn(r, log) = 1
         /\ \A c \in DOMAIN cpc :
              /\ CopiesIn(<<c, 22>>, log) = IF cpc[c] = "ready" THEN 0 ELSE 1
              /\ CopiesIn(<<c, 140>>, log) = IF cpc[c] = "done" THEN 1 ELSE 0

\* C7's case: one call has returned while another, with other arguments, is
\* in the middle of its stages, under a DEBUG logger.
C7_Witness ==
    /\ level = "DEBUG"
    /\ \E c, d \in DOMAIN cpc :
         /\ c # d /\ cargs[c] # cargs[d]
         /\ cpc[c] = "done" /\ cpc[d] \in {"clean", "domain", "return"}
         /\ cret[c] # <<>>

\* The names the folder holds, of any kind.
Entries(d) == {n \in DOMAIN d : d[n] # 0}

BatchUntouched ==
    /\ format_calls = 0 /\ rename_calls = 0
    /\ blog = <<>>
    /\ disk = disk0

\* C8: batch_rename_files fails fast: a path that is not a directory ends the
\* run with NotADirectoryError and an empty directory ends it with
\* FileNotFoundError, the run never entering the loop; when either error is
\* raised, format_filename has been called on no file, os.rename has not been
\* called, and the folder holds what it held before.
C8_FailsFast ==
    /\ ~is_dir =>
         /\ bpc \in {"start", "raised"}
         /\ bpc = "raised" => berror = "NotADirectoryError"
    /\ (is_dir /\ Entries(disk0) = {}) =>
         /\ bpc \in {"start", "raised"}
         /\ bpc = "raised" => berror = "FileNotFoundError"
    /\ bpc = "raised" =>
         /\ berror \in {"NotADirectoryError", "FileNotFoundError"}
         /\ BatchUntouched

\* An empty directory has raised FileNotFoundError.
C8_Witness ==
    /\ is_dir /\ Entries(disk0) = {}
    /\ bpc = "raised" /\ berror = "FileNotFoundError"

\* The positions of files the loop is done with.
Processed == 1..(bi - 1)

Differs(i) == files[i] # format_filename(files[i], bflag)

KindCount(kind) == Cardinality({i \in DOMAIN blog : blog[i].kind = kind})

\* C9 (as claimed): when the run completes, the recorded counts sum to the
\* number of files processed.  The run records two counts, renamed_count and
\* no_change_count; a rename that raises is logged and counted nowhere.
C9_Original ==
    bpc = "done" => renamed_count + no_change_count = Len(files)

\* C9 (amended): for each file the loop is done with, format_filename was
\* called once and os.rename was attempted if and only if the result differs
\* from the name; the file is counted in renamed_count when the rename
\* succeeded, in no_change_count when no rename was attempted, and in neither
\* when the rename raised, which leaves one error record and does not stop
\* the loop; when the run completes, renamed_count + no_change_count + the
\* number of error records is the number of files listed.
C9_Amended ==
    /\ bpc \in {"loop", "done"} =>
         /\ format_calls = bi - 1
         /\ Len(blog) = bi - 1
         /\ \A i \in Processed :
              /\ blog[i].file = files[i]
              /\ blog[i].kind \in {"Renamed", "Error renaming"} <=> Differs(i)
              /\ blog[i].kind = "No change needed" <=> ~Differs(i)
         /\ rename_calls = Cardinality({i \in Processed : Differs(i)})
         /\ renamed_count = KindCount("Renamed")
         /\ no_change_count = KindCount("No change needed")
         /\ error_logs = KindCount("Error renaming")
         /\ renamed_count + error_logs = rename_calls
    /\ bpc = "done" =>
         /\ bi - 1 = Len(files)
         /\ renamed_count + no_change_count + error_logs = Len(files)

\* A completed run in which a rename raised before the last file, and files
\* after it were renamed and left unchanged.
C9_Witness ==
    /\ bpc = "done"
    /\ error_logs > 0 /\ renamed_count > 0 /\ no_change_count > 0
    /\ blog[1].kind = "Error renaming"

\* A URL occurs more than once in the combined site list.
HasDuplicate ==
    \E h, k \in DOMAIN all_list : h # k /\ all_list[h] = all_list[k]

\* The expected files of a directory in the order they are checked: sites in
\* list order, for each site mobile then desktop.
ExpectedIn(d) ==
    [k \in 1..(2 * Len(Sites(d))) |->
        <<d, domain_of[Sites(d)[(k + 1) \div 2]] \o Suffixes[2 - (k % 2)]>>]

\* All expected files in the order they are checked: the gambling directory,
\* then the non-gambling one.
AllExpected == ExpectedIn(Directories[1]) \o ExpectedIn(Directories[2])

\* The positions of a list of paths that are not regular files on disk.
AbsentIn(paths) == {k \in DOMAIN paths : ~isfile(paths[k])}

\* The positions of the expected files that are not regular files on disk.
Absent == AbsentIn(AllExpected)

\* The entries of the two directories that no site accounts for.
Unexpected ==
    {<<Directories[1], f>> : f \in listdir(Directories[1]) \ expected_names(gsites)}
      \cup {<<Directories[2], f>> : f \in listdir(Directories[2]) \ expected_names(nsites)}

\* The outcomes of a run over the expected files all, of which those at the
\* positions absent are not on disk, with the unexpected entries extra.
OutcomesOver(all, absent, extra) ==
    /\ HasDuplicate =>
         /\ vpc \in {"duplicates", "raised"}
         /\ vpc = "raised" => verror = "ValueError"
         /\ isfile_calls = 0
    /\ (vpc = "raised" /\ verror = "ValueError") =>
         /\ HasDuplicate
         /\ count(all_list, vbad) > 1
         /\ isfile_calls = 0
    /\ (vpc = "raised" /\ verror = "FileNotFoundError") =>
         /\ absent # {}
         /\ vbad = all[Min(absent)]
         /\ isfile_calls = Min(absent)
    /\ vpc = "raised" => verror \in {"ValueError", "FileNotFoundError"}
    /\ warnings \subseteq extra
    /\ vpc = "done" => warnings = extra
    /\ vpc \in {"done", "raised"} =>
         (vpc = "done" <=> (~HasDuplicate /\ absent = {}))

\* C10: validation raises ValueError (DuplicateSite) when a URL occurs more
\* than once in the combined site list, before any file-existence check; it
\* raises FileNotFoundError (MissingDatasetFile) at the first expected file,
\* mobile then desktop and sites in list order, that is absent; an entry of
\* a directory that is not expected is only logged; and a run that has ended
\* completed normally if and only if no URL is duplicated and every expected
\* file exists.
C10_ValidationOutcomes ==
    \A all \in {AllExpected} : OutcomesOver(all, AbsentIn(all), Unexpected)

\* Validation raised FileNotFoundError at an expected file that is neither
\* the first one checked nor the only one absent, in a directory that also
\* holds an unexpected file.
C10_Witness ==
    /\ vpc = "raised" /\ verror = "FileNotFoundError"
    /\ Cardinality(Absent) > 1
    /\ Min(Absent) > 1
    /\ JunkFile \in listdir(vbad[1])

\* The host of a URL as its parts spell it.
HostOf(p) == p.sub \o p.domain \o p.port

NamesOf(host) == [j \in DOMAIN Suffixes |-> host \o Suffixes[j]]

\* C11 (as claimed): for every site URL the validator expects exactly
\* {registrableDomain}_mobile.png and {registrableDomain}_desktop.png, the
\* names format_filename produces with subdomains removed, so that hosts that
\* differ only in www. or other subdomains have the same expected names.
C11_Original ==
    epc = "done" =>
        /\ \A u \in 1..2 :
             /\ enames[u] = NamesOf(eparts[u].domain)
             /\ enames[u] = ecanon[u]
        /\ eparts[1].domain = eparts[2].domain => enames[1] = enames[2]

\* C11 (amended): for every site URL the validator expects exactly
\* {host}_mobile.png and {host}_desktop.png, where host is the network
\* location of the URL as written (subdomains, www. and port included, the
\* scheme and the path left out); two URLs have the same expected names
\* exactly when their hosts are equal; and the names are those
\* format_filename produces with subdomains removed when the host is a bare
\* registrable domain.
C11_Amended ==
    epc = "done" =>
        /\ \A u \in 1..2 :
             /\ enames[u] = NamesOf(HostOf(eparts[u]))
             /\ (eparts[u].sub = <<>> /\ eparts[u].port = <<>>) => enames[u] = ecanon[u]
        /\ (enames[1] = enames[2]) <=> (HostOf(eparts[1]) = HostOf(eparts[2]))

\* Two sites of one registrable domain, one written with www. and a path,
\* whose expected names differ.
C11_Witness ==
    /\ epc = "done"
    /\ eparts[1].domain = eparts[2].domain
    /\ eparts[1].sub = <<"w", "w", "w", ".">> /\ eparts[2].sub = <<>>
    /\ eparts[1].path # <<>>
    /\ enames[1] # enames[2]

\* The positions of s where a locale token _xx-xx starts.
LocaleStarts(s) == {i \in 1..Len(s) : LocaleAt(s, i)}

\* s is t with the six characters of every locale token of t deleted.
LocalesDeleted(s, t) ==
    /\ Len(s) = Len(t) - 6 * Cardinality(LocaleStarts(t))
    /\ \A k \in 1..Len(t) :
         (\A i \in LocaleStarts(t) : k < i \/ k > i + 5) =>
             s[k - 6 * Cardinality({i \in LocaleStarts(t) : i < k})] = t[k]

\* C13 (as claimed): the stem leaving step 4 contains no substring matching
\* the locale-token pattern _xx-xx.
C13_Original ==
    Formatted => ~locale_search(run.s4)

\* C13 (amended): step 4 deletes every occurrence of _xx-xx that the stem
\* entering it holds, at any position, and nothing else; the stem leaving
\* step 4 can hold the pattern again where a deletion joined the text on its
\* two sides, and the stem leaving the path truncation (step 7) holds none;
\* www.tiket.com_en-id(mobile).png gives tiket.com_mobile.png.
C13_Amended ==
    Formatted =>
        /\ LocalesDeleted(run.s4, run.s3)
        /\ ~locale_search(run.s7)
        /\ filename = ExTiket =>
             run.result = <<"t", "i", "k", "e", "t", ".", "c", "o", "m", "_", "m", "o", "b", "i", "l", "e", ".", "p", "n", "g">>

\* C13's case: two locale tokens were deleted from one stem.
C13_Witness ==
    /\ Formatted
    /\ Cardinality(LocaleStarts(run.s3)) = 2
    /\ Len(run.s4) = Len(run.s3) - 12

\* Step 9 is enabled on a stem: the text after its last dot holds an
\* underscore (lines 98-102).
CollapseEnabled(s) == rfind(s, ".") # 0 /\ Contains(Drop(s, rfind(s, ".")), <<"_">>)

\* C16: the stem leaving the path truncation (step 7) never holds an
\* underscore; step 9 is therefore never enabled, and the stem entering
\* step 10 is the stem leaving step 8.
C16_CollapseNeverEnabled ==
    Formatted =>
        /\ ~Contains(run.s7, <<"_">>)
        /\ ~CollapseEnabled(run.s8)
        /\ run.s9 = run.s8

\* C16's case: the stem entering step 7 ends in a doubled TLD (.id_id), the
\* form step 9 is written for, and step 7 has cut the copy off.
C16_Witness ==
    /\ Formatted
    /\ endswith(run.s6, <<".", "i", "d", "_", "i", "d">>)
    /\ run.s7 # run.s6
    /\ run.s9 = run.s8

\* a is b, or b without some characters at its two ends.
IsSubstring(a, b) == a = <<>> \/ find(b, a) # 0

RECURSIVE IsSubsequence(_, _)
\* a is b without some of its characters.
IsSubsequence(a, b) ==
    IF a = <<>> THEN TRUE
    ELSE IF b = <<>> THEN FALSE
    ELSE IF Head(a) = Head(b) THEN IsSubsequence(Tail(a), Tail(b))
    ELSE IsSubsequence(a, Tail(b))

\* C17 (as claimed): the domain part of the output is a contiguous substring
\* of the input's stem.
C17_Original ==
    Formatted => IsSubstring(run.domain, run.stem)

\* C17 (amended): the domain part of the output is the input's stem with
\* characters deleted and none added or changed; it is a contiguous substring
\* of the stem as it leaves step 4, and of the input's stem itself when the
\* stem holds no parenthesised token and no locale token, the two things
\* that are deleted from the middle of a stem.
C17_Amended ==
    Formatted =>
        /\ IsSubsequence(run.domain, run.stem)
        /\ IsSubstring(run.domain, run.s4)
        /\ (~run.paren /\ ~locale_search(run.s3)) => IsSubstring(run.domain, run.stem)

\* C17's case: a locale token was deleted from the middle of the stem, and
\* the domain is not a contiguous part of the stem.
C17_Witness ==
    /\ Formatted
    /\ locale_search(run.s3)
    /\ run.domain # <<>>
    /\ ~IsSubstring(run.domain, run.stem)

\* The text after the last dot of s.
LastSegment(s) == Drop(s, rfind(s, "."))

\* The text of s before its first underscore, all of s when it has none.
UpToUnderscore(s) == IF find(s, <<"_">>) = 0 THEN s ELSE Take(s, find(s, <<"_">>) - 1)

\* The text of s after its first underscore.
AfterUnderscore(s) == Drop(s, find(s, <<"_">>))

\* The segment after the last dot of s holds an underscore and its first two
\* underscore-separated parts are equal.
DoubledTld(s) ==
    /\ rfind(s, ".") # 0
    /\ Contains(LastSegment(s), <<"_">>)
    /\ UpToUnderscore(LastSegment(s)) = UpToUnderscore(AfterUnderscore(LastSegment(s)))

\* C14: step 9 collapses the segment after the last dot of the stem to one
\* copy of its first part when the segment holds an underscore and its
\* first two underscore-separated parts are equal (prodia.co.id_id becomes
\* prodia.co.id), and it leaves every other stem as it is, a segment of
\* three or more parts whose first two parts differ included.
C14_DuplicateCollapse ==
    kpc = "done" =>
        /\ DoubledTld(kname) =>
             kout = Take(kname, rfind(kname, ".")) \o UpToUnderscore(LastSegment(kname))
        /\ ~DoubledTld(kname) => kout = kname
        /\ kname = ExProdiaStem => kout = <<"p", "r", "o", "d", "i", "a", ".", "c", "o", ".", "i", "d">>

\* C14's case: a segment of three parts whose first two are equal has been
\* collapsed.
C14_Witness ==
    /\ kpc = "done"
    /\ DoubledTld(kname)
    /\ Len(split(LastSegment(kname), <<"_">>)) = 3
    /\ kout # kname

\* C18: batch_rename_files never loses a file: at every point of a run the
\* folder holds as many regular files as it held before the run, no rename
\* having replaced a file that was there.
C18_NoFileLost ==
    bpc \in {"loop", "done"} =>
        Cardinality(RegularFiles(disk)) = Cardinality(RegularFiles(disk0))

\* ------------------------------------------------------------------------
\* The scrape job (SpecScrape)
\* ------------------------------------------------------------------------

\* The tasks whose call of scrape_into_dataset is in progress.
InProgress == {k \in Tasks : tpc[k] \in InCall}

\* The tasks whose call was made.
Started == {k \in Tasks : tpc[k] \in InCall \cup {"finished", "done"}}

\* The tasks the loop of scrape_group has taken.
Taken(grp) == {k \in TasksOf(grp) : tpc[k] = "done"}

\* C12: a call that raises is logged with one warning and ends only its own
\* task: no site is attempted more than once, the progress count of a group
\* is the number of its tasks the loop has taken, the job raises only for a
\* duplicate site (before any attempt), it stops only after Scraper.close(),
\* and when it is done every site of both groups was attempted exactly once,
\* every failure was logged and Scraper.close() was called once.
C12_FailureIsolation ==
    /\ \A k \in Tasks : attempts[k] <= 1
    /\ \A grp \in {"non_gambling", "gambling"} :
           progress[grp] = Cardinality(Taken(grp))
    /\ warned <= failed
    /\ jpc = "raised" =>
           /\ jerror = "ValueError" /\ JobHasDuplicate
           /\ \A k \in Tasks : attempts[k] = 0
    /\ close_calls = (IF jpc \in {"done", "raised"} THEN 1 ELSE 0)
    /\ ~ENABLED SNext => jpc \in {"done", "raised"}
    /\ jpc = "done" =>
           /\ \A k \in Tasks : attempts[k] = 1 /\ tpc[k] = "done"
           /\ \A grp \in {"non_gambling", "gambling"} :
                  progress[grp] = Cardinality(TasksOf(grp))
           /\ warned = failed

\* The job is done with both groups attempted, some call having raised and
\* some call having returned.
C12_Witness ==
    /\ jpc = "done"
    /\ TasksOf("non_gambling") # {} /\ TasksOf("gambling") # {}
    /\ failed >= 1 /\ failed < Cardinality(Tasks)
    /\ warned = failed
    /\ close_calls = 1

\* C15: at most 3 calls of scrape_into_dataset are in progress, a site is
\* started at most once and exactly once when its group is through, and a
\* site of the gambling group is started only after every site of the
\* non-gambling group has finished.
C15_BoundedConcurrency ==
    /\ Cardinality(InProgress) <= 3
    /\ \A k \in Tasks : attempts[k] = (IF k \in Started THEN 1 ELSE 0)
    /\ \A k \in TasksOf("non_gambling") :
           jpc \in {"gambling", "done"} => attempts[k] = 1
    /\ \A k \in TasksOf("gambling") : jpc = "done" => attempts[k] = 1
    /\ \A k \in TasksOf("gambling") :
           k \in Started =>
               \A h \in TasksOf("non_gambling") : tpc[h] \in {"finished", "done"}

\* Three calls are in progress and a fourth site of the group waits.
C15_Witness ==
    /\ Cardinality(InProgress) = 3
    /\ \E k \in Tasks : tpc[k] = "waiting"

\* A call of scrape_into_dataset returns or raises in this step.
CallEnds ==
    \E k \in Tasks : tpc[k] # "finished" /\ tpc'[k] = "finished"

\* C19: the pages a call opened are closed once the call has returned or
\* raised, Scraper.pages holds no closed page when a call returns or raises,
\* and after Scraper.close() no page is open and Scraper.pages is empty.
C19_NoPageLeak ==
    /\ [](\A k \in Tasks :
             tpc[k] \in {"finished", "done"} => PagesOf(k) \cap open_pages = {})
    /\ [][CallEnds => spages' \subseteq open_pages']_vars
    /\ [](close_calls > 0 => open_pages = {} /\ spages = {})

====
